---- MODULE Spec2Model ----
(***************************************************************************)
(* A model of the fieldmap interfaces of sdcflows                          *)
(* (src/sdcflows/interfaces/fmap.py) and of the dataset-wide workflow      *)
(* builder (src/sdcflows/workflows/fit/base.py).                           *)
(*                                                                         *)
(* Four state machines share the module, one per unit of the source:       *)
(*   SubtractPhases._run_interface                                         *)
(*   CheckB0Units._run_interface, applied in a chain                       *)
(*   DisplacementsField2Fieldmap._run_interface                            *)
(*   init_sdcflows_wf                                                      *)
(* A behaviour runs one of them: the inputs of the unit are drawn in the   *)
(* initial state and the variables of the other units stay idle.           *)
(***************************************************************************)
EXTENDS Integers, Sequences, FiniteSets

VARIABLES
  \* ---- SubtractPhases ----
  in_phases,       \* self.inputs.in_phases: a list of file names
  in_meta,         \* self.inputs.in_meta: a list of references to dicts
  heap,            \* the dict objects: heap[r] is the dict that reference r names
  results,         \* self._results: a dict, keys "phase_diff" and "metadata"
  sub_error,       \* the exception _run_interface ended with, or "none"
  sub_pc,          \* "ready" before _run_interface, "done" after
  subtract_calls,  \* how many times _subtract_phases was entered
  sub_written,     \* the files written by the run
  in_phases0,      \* history: in_phases as given
  in_meta0,        \* history: the contents of the in_meta dicts as given
  \* ---- CheckB0Units ----
  u_fs,            \* the file system: file name -> voxel data
  u_field,         \* the file the next run is applied to
  u_hist,          \* history: the inputs and the output of each run
  u_fs0,           \* history: the file system before the first run
  u_in0,           \* history: the file given to the first run
  \* ---- DisplacementsField2Fieldmap ----
  d_inputs,        \* transform (voxel displacements), ro_time, pe_dir, demean, itk_transform
  d_results,       \* self._results: a dict, key "out_file"
  d_fs,            \* the files written: file name -> voxel data
  d_error,         \* the exception the run ended with, or "none"
  d_pc,            \* "ready" or "done"
  d_converted,     \* history: what disp_to_fmap returned (<<>> if it raised)
  \* ---- init_sdcflows_wf ----
  subjects,        \* the list collect_participants returned
  selector,        \* what find_estimators does for each subject
  estimators_record, \* the local dict of init_sdcflows_wf
  wf_nodes,        \* the nodes added to the workflow, in order of addition
  wf_edges,        \* the connections of the workflow
  wf_pc,           \* "scan", "add", "done", "failed", or "idle"
  wf_i,            \* position of the first loop (index into subjects)
  wf_j,            \* position of the second loop (index into the estimators, in order)
  wf_error         \* the exception init_sdcflows_wf ended with, or "none"

subVars == <<in_phases, in_meta, heap, results, sub_error, sub_pc,
             subtract_calls, sub_written, in_phases0, in_meta0>>
unitVars == <<u_fs, u_field, u_hist, u_fs0, u_in0>>
dispVars == <<d_inputs, d_results, d_fs, d_error, d_pc, d_converted>>
wfVars == <<subjects, selector, estimators_record, wf_nodes, wf_edges,
            wf_pc, wf_i, wf_j, wf_error>>
vars == <<subVars, unitVars, dispVars, wfVars>>

(***************************************************************************)
(* Bounds of the model.                                                    *)
(***************************************************************************)
\* The longest input list SubtractPhases is tried with.
MaxInputs == 3
\* The number of voxels of a volume.
NVox == 3
\* How many times CheckB0Units is chained.
MaxRuns == 3
\* The number of subjects of the dataset.
MaxSubjects == 3
\* The most estimators the Selector returns for one subject.
MaxEstim == 2

(***************************************************************************)
(* Python dicts: functions whose domain is the set of keys.                *)
(***************************************************************************)
EmptyDict == [k \in {} |-> k]

Pop(d, key) == [k \in DOMAIN d \ {key} |-> d[k]]

Merge(d1, d2) ==
  [k \in DOMAIN d1 \cup DOMAIN d2 |-> IF k \in DOMAIN d1 THEN d1[k] ELSE d2[k]]

Put(d, key, val) ==
  [k \in DOMAIN d \cup {key} |-> IF k = key THEN val ELSE d[k]]

Abs(x) == IF x < 0 THEN -x ELSE x

\* All the lists over S of length 0..n.
SeqsUpTo(S, n) == UNION {[1..k -> S] : k \in 0..n}

(***************************************************************************)
(*                           SubtractPhases                                *)
(***************************************************************************)
PhaseFiles == {"phase1.nii", "phase2.nii"}

\* The metadata records the inputs are drawn from: an echo time (ms) or
\* none, and one more key or none.
MetaDicts ==
  {Merge(a, b) :
     a \in {EmptyDict} \cup {Put(EmptyDict, "EchoTime", t) : t \in {5, 7}},
     b \in {EmptyDict, Put(EmptyDict, "PhaseEncodingDirection", "j")}}

\* _SubtractPhasesInputSpec: in_phases = List(File(exists=True), min=1, max=2),
\* in_meta = List(Dict(), min=1, max=2).  The length limits of a traits List
\* are its minlen and maxlen arguments; min and max are stored as metadata of
\* the trait and limit nothing, so a list of any length is accepted.
SubtractPhasesInputSpec(phases, meta) ==
  /\ \A i \in 1..Len(phases) : phases[i] \in PhaseFiles
  /\ \A i \in 1..Len(meta) : meta[i] \in MetaDicts

\* raise ValueError("Length of input phase-difference maps and metadata
\* files should match."): the cardinality error of the interface.
InputCardinalityError == "ValueError"

\* Not the code: the lengths are never compared.
NoCardinalityCheck(phases, meta) == FALSE

\* if len(self.inputs.in_phases) != len(self.inputs.in_meta)
CardinalityMismatch(phases, meta) == Len(phases) # Len(meta)

\* if len(self.inputs.in_phases) == 1
IsSingle(phases) == Len(phases) = 1

\* Not the code: the metadata of the single input is not forwarded.
PassThroughNoMeta(phases, meta) == [k \in {"phase_diff"} |-> phases[1]]

\* The single-input branch: the input itself and its metadata object.
PassThrough(phases, meta) ==
  [k \in {"phase_diff", "metadata"} |->
     IF k = "phase_diff" THEN phases[1] ELSE meta[1]]

\* dict.copy(): a new object with the same items.
CopyDict(h, r) == Append(h, h[r])

\* Not the code: the input records themselves are handed over.
MetaArgsNoCopy(h, meta) == [heap |-> h, a |-> meta[1], b |-> meta[2]]

\* (in_meta[0].copy(), in_meta[1].copy()): the two records handed to
\* _subtract_phases are new objects.
MetaArgs(h, meta) ==
  LET h1 == CopyDict(h, meta[1])
      h2 == CopyDict(h1, meta[2])
  IN  [heap |-> h2, a |-> Len(h1), b |-> Len(h2)]

\* utils.phasemanip.subtract_phases.  The echo time of each of the two
\* records is consumed (removed from the record it was handed); the
\* echo-time difference is derived from them and must be positive; the
\* output metadata is the union of what is left plus the difference; the
\* output is a new volume.
subtract_phases(h, phases, a, b) ==
  LET hasA == "EchoTime" \in DOMAIN h[a]
      hasB == "EchoTime" \in DOMAIN h[b]
      h1 == [h EXCEPT ![a] = Pop(@, "EchoTime"), ![b] = Pop(@, "EchoTime")]
      ok == hasA /\ hasB /\ h[a]["EchoTime"] # h[b]["EchoTime"]
      dte == IF ok THEN Abs(h[b]["EchoTime"] - h[a]["EchoTime"]) ELSE 0
      newmeta == Put(Merge(h1[a], h1[b]), "EchoTimeDifference", dte)
  IN  IF ok
      THEN [ok |-> TRUE, heap |-> Append(h1, newmeta),
            out |-> "phasediff.nii", meta |-> Len(h1) + 1]
      ELSE [ok |-> FALSE, heap |-> h1, out |-> "", meta |-> 0]

SubInit ==
  /\ \E phases \in SeqsUpTo(PhaseFiles, MaxInputs),
        meta \in SeqsUpTo(MetaDicts, MaxInputs) :
       /\ SubtractPhasesInputSpec(phases, meta)
       /\ in_phases = phases
       /\ heap = meta
       /\ in_meta = [i \in 1..Len(meta) |-> i]
       /\ in_phases0 = phases
       /\ in_meta0 = meta
  /\ results = EmptyDict
  /\ sub_error = "none"
  /\ sub_pc = "ready"
  /\ subtract_calls = 0
  /\ sub_written = {}

SubIdle ==
  /\ in_phases = <<>> /\ in_meta = <<>> /\ heap = <<>> /\ results = EmptyDict
  /\ sub_error = "none" /\ sub_pc = "idle" /\ subtract_calls = 0
  /\ sub_written = {} /\ in_phases0 = <<>> /\ in_meta0 = <<>>

\* SubtractPhases._run_interface
SubtractPhases_run ==
  /\ sub_pc = "ready"
  /\ sub_pc' = "done"
  /\ UNCHANGED <<in_phases, in_meta, in_phases0, in_meta0>>
  /\ UNCHANGED <<unitVars, dispVars, wfVars>>
  /\ IF CardinalityMismatch(in_phases, in_meta)
     THEN /\ sub_error' = InputCardinalityError
          /\ UNCHANGED <<heap, results, subtract_calls, sub_written>>
     ELSE IF IsSingle(in_phases)
     THEN IF Len(in_meta) < 1
          THEN \* self.inputs.in_meta[0] of an empty list
               /\ sub_error' = "IndexError"
               /\ UNCHANGED <<heap, results, subtract_calls, sub_written>>
          ELSE /\ results' = PassThrough(in_phases, in_meta)
               /\ UNCHANGED <<heap, sub_error, subtract_calls, sub_written>>
     ELSE IF Len(in_meta) < 2
     THEN \* self.inputs.in_meta[0] or in_meta[1] of a list too short
          /\ sub_error' = "IndexError"
          /\ UNCHANGED <<heap, results, subtract_calls, sub_written>>
     ELSE LET args == MetaArgs(heap, in_meta)
              r == subtract_phases(args.heap, in_phases, args.a, args.b)
          IN  /\ subtract_calls' = subtract_calls + 1
              /\ heap' = r.heap
              /\ IF r.ok
                 THEN /\ results' = [k \in {"phase_diff", "metadata"} |->
                                       IF k = "phase_diff" THEN r.out ELSE r.meta]
                      /\ sub_written' = sub_written \cup {r.out}
                      /\ UNCHANGED sub_error
                 ELSE /\ sub_error' = "MissingParameterError"
                      /\ UNCHANGED <<results, sub_written>>

(***************************************************************************)
(*                            CheckB0Units                                 *)
(***************************************************************************)
\* A voxel value n / (2 pi)^k, kept in lowest form: 0 has k = 0.
Val(n, k) == IF n = 0 THEN [n |-> 0, k |-> 0] ELSE [n |-> n, k |-> k]

\* data / (2.0 * np.pi), one voxel
DivTwoPi(v) == Val(v.n, v.k + 1)

\* The voxel values the input fields are drawn from.
VoxelValues == {Val(n, 0) : n \in -1..1}

\* A file name: the directory, the base name and the number of "_Hz"
\* suffixes the base name carries.
FileName(dir, base, hz) == [dir |-> dir, base |-> base, hz |-> hz]

\* fname_presuffix(fname, suffix="_Hz", newpath=runtime.cwd): the same
\* base name with one more "_Hz" suffix, in the working directory.
fname_presuffix(fname) == FileName("cwd", fname.base, fname.hz + 1)

\* to_filename: the file system with `name` holding `data`.
WriteFile(fs, name, data) ==
  [f \in DOMAIN fs \cup {name} |-> IF f = name THEN data ELSE fs[f]]

\* Not the code: the units are not looked at, every input is converted.
AlwaysConvert(units) == FALSE

\* if self.inputs.units == "Hz"
UnitsAreHz(units) == units = "Hz"

\* The result of one run of CheckB0Units on (in_file, units):
\* the out_file and the file system after it.
CheckB0Units(fs, in_file, units) ==
  IF UnitsAreHz(units)
  THEN [out_file |-> in_file, fs |-> fs]
  ELSE LET out == fname_presuffix(in_file)
           data == [i \in DOMAIN fs[in_file] |-> DivTwoPi(fs[in_file][i])]
       IN  [out_file |-> out, fs |-> WriteFile(fs, out, data)]

UnitsInit ==
  \E data \in [1..NVox -> VoxelValues] :
    LET f == FileName("data", "fmap", 0) IN
    /\ u_fs = WriteFile(EmptyDict, f, data)
    /\ u_fs0 = WriteFile(EmptyDict, f, data)
    /\ u_field = f
    /\ u_in0 = f
    /\ u_hist = <<>>

UnitsIdle ==
  /\ u_fs = EmptyDict /\ u_fs0 = EmptyDict /\ u_hist = <<>>
  /\ u_field = FileName("", "", 0)
  /\ u_in0 = FileName("", "", 0)

\* CheckB0Units._run_interface, applied first to the input field and then
\* to the out_file of the previous run.  units is an input of every run,
\* given by the caller: the interface returns out_file only and keeps no
\* record of the units of a file.
CheckB0Units_run ==
  /\ u_field \in DOMAIN u_fs
  /\ Len(u_hist) < MaxRuns
  /\ \E units \in {"Hz", "rad/s"} :
       LET r == CheckB0Units(u_fs, u_field, units) IN
       /\ u_fs' = r.fs
       /\ u_field' = r.out_file
       /\ u_hist' = Append(u_hist,
                           [in_file |-> u_field, units |-> units,
                            out_file |-> r.out_file, data |-> r.fs[r.out_file],
                            files |-> DOMAIN r.fs])
  /\ UNCHANGED <<u_fs0, u_in0>>
  /\ UNCHANGED <<subVars, dispVars, wfVars>>

(***************************************************************************)
(*                     DisplacementsField2Fieldmap                         *)
(***************************************************************************)
RECURSIVE GCD(_, _)
GCD(a, b) == IF b = 0 THEN a ELSE GCD(b, a % b)

\* The rational n / d in lowest terms with d > 0 (d = 0: the sign of n
\* over 0, what a division by zero leaves).
Rat(n, d) ==
  IF d = 0
  THEN [n |-> IF n > 0 THEN 1 ELSE IF n < 0 THEN -1 ELSE 0, d |-> 0]
  ELSE LET g == GCD(Abs(n), Abs(d))
           s == IF d < 0 THEN -1 ELSE 1
       IN  [n |-> (s * n) \div g, d |-> (s * d) \div g]

RatSub(a, b) == Rat(a.n * b.d - b.n * a.d, a.d * b.d)
RatAdd(a, b) == Rat(a.n * b.d + b.n * a.d, a.d * b.d)
RatDivInt(a, k) == Rat(a.n, a.d * k)
RatLess(a, b) == a.n * b.d < b.n * a.d
RatLeq(a, b) == a.n * b.d <= b.n * a.d

\* The k-th smallest value of a volume (k = 1 is the minimum).
KthSmallest(data, k) ==
  CHOOSE v \in {data[i] : i \in DOMAIN data} :
    /\ Cardinality({i \in DOMAIN data : RatLess(data[i], v)}) < k
    /\ Cardinality({i \in DOMAIN data : RatLeq(data[i], v)}) >= k

\* np.median: the middle value, or the mean of the two middle values.
Median(data) ==
  LET n == Len(data) IN
  IF n % 2 = 1
  THEN KthSmallest(data, (n + 1) \div 2)
  ELSE RatDivInt(RatAdd(KthSmallest(data, n \div 2),
                        KthSmallest(data, n \div 2 + 1)), 2)

RECURSIVE RatSum(_, _)
RatSum(data, n) == IF n = 0 THEN Rat(0, 1) ELSE RatAdd(RatSum(data, n - 1), data[n])

Mean(data) == RatDivInt(RatSum(data, Len(data)), Len(data))

\* Not the code: the field centred on its mean.
DemeanByMean(data) == [i \in DOMAIN data |-> RatSub(data[i], Mean(data))]

\* data -= np.median(data)
Demean(data) == [i \in DOMAIN data |-> RatSub(data[i], Median(data))]

PeDirs == {"j-", "j", "i", "i-", "k", "k-"}

\* "ijk".index(pe_dir[0]) + 1
PeAxis(pe_dir) ==
  IF pe_dir \in {"i", "i-"} THEN 1 ELSE IF pe_dir \in {"j", "j-"} THEN 2 ELSE 3

\* a trailing "-" flips the sign
PeSign(pe_dir) == IF pe_dir \in {"i-", "j-", "k-"} THEN -1 ELSE 1

\* Not the specified conversion: no precondition on the readout time.
disp_to_fmap_unchecked(vol, ro_time, pe_dir, itk_format) ==
  [ok |-> TRUE,
   data |-> [i \in DOMAIN vol |->
               Rat(PeSign(pe_dir) * (IF itk_format THEN -1 ELSE 1)
                     * vol[i][PeAxis(pe_dir)], ro_time)]]

\* sdcflows.transform.disp_to_fmap: the displacement along the
\* phase-encoding axis over the readout time, the sign flipped by a
\* trailing "-" of pe_dir and by the ITK convention; a readout time that
\* is not positive is a precondition failure.
disp_to_fmap(vol, ro_time, pe_dir, itk_format) ==
  IF ro_time <= 0
  THEN [ok |-> FALSE, data |-> <<>>]
  ELSE [ok |-> TRUE,
        data |-> [i \in DOMAIN vol |->
                    Rat(PeSign(pe_dir) * (IF itk_format THEN -1 ELSE 1)
                          * vol[i][PeAxis(pe_dir)], ro_time)]]

\* The displacement vectors the voxels of a transform are drawn from.
DispVecs == {<<0, 0, 0>>, <<1, -2, 3>>, <<4, 1, -1>>}

\* The readout times tried.
RoTimes == -1..2

\* _DisplacementsField2FieldmapInputSpec: ro_time is any Float, pe_dir one
\* of six strings, demean and itk_transform are Bools.
DisplacementsField2FieldmapInputSpec(inp) ==
  /\ inp.ro_time \in Int
  /\ inp.pe_dir \in PeDirs
  /\ inp.demean \in BOOLEAN
  /\ inp.itk_transform \in BOOLEAN

DispInit ==
  /\ \E vol \in [1..NVox -> DispVecs], ro \in RoTimes, pe \in PeDirs,
        dm \in BOOLEAN, itk \in BOOLEAN :
       /\ d_inputs = [transform |-> FileName("data", "xfm", 0), vol |-> vol,
                      ro_time |-> ro, pe_dir |-> pe, demean |-> dm,
                      itk_transform |-> itk]
       /\ DisplacementsField2FieldmapInputSpec(d_inputs)
  /\ d_results = EmptyDict
  /\ d_fs = EmptyDict
  /\ d_error = "none"
  /\ d_pc = "ready"
  /\ d_converted = <<>>

DispIdle ==
  /\ d_inputs = EmptyDict /\ d_results = EmptyDict /\ d_fs = EmptyDict
  /\ d_error = "none" /\ d_pc = "idle" /\ d_converted = <<>>

\* DisplacementsField2Fieldmap._run_interface
DisplacementsField2Fieldmap_run ==
  /\ d_pc = "ready"
  /\ d_pc' = "done"
  /\ UNCHANGED d_inputs
  /\ UNCHANGED <<subVars, unitVars, wfVars>>
  /\ LET out == fname_presuffix(d_inputs.transform)
         r == disp_to_fmap(d_inputs.vol, d_inputs.ro_time, d_inputs.pe_dir,
                           d_inputs.itk_transform)
     IN  /\ d_results' = Put(d_results, "out_file", out)
         /\ d_converted' = r.data
         /\ IF r.ok
            THEN /\ d_fs' = WriteFile(d_fs, out,
                                      IF d_inputs.demean THEN Demean(r.data)
                                      ELSE r.data)
                 /\ UNCHANGED d_error
            ELSE /\ d_error' = "PreconditionError"
                 /\ UNCHANGED d_fs

(***************************************************************************)
(*                          init_sdcflows_wf                               *)
(***************************************************************************)
\* What find_estimators does for one subject: it raises, or it returns n
\* estimators; `broken` is the index of the one whose get_workflow raises
\* (0: none does).
SelectorOutcomes ==
  {[raises |-> TRUE, n |-> 0, broken |-> 0]}
    \cup UNION {{[raises |-> FALSE, n |-> n, broken |-> b] : b \in 0..n} :
                 n \in 0..MaxEstim}

\* find_estimators(layout, subject, fmapless, logger): the estimators of
\* one subject, each its own object.
find_estimators(sel, subject) ==
  [k \in 1..sel[subject].n |->
     [subject |-> subject, idx |-> k,
      broken |-> (k = sel[subject].broken)]]

\* estim.get_workflow(): the step-graph of the estimator, a nested workflow.
get_workflow(estim) == [subject |-> estim.subject, idx |-> estim.idx]

RECURSIVE Flatten(_, _, _)
\* The estimators in the order the nested loops over
\* estimators_record.items() visit them: the subjects in insertion order,
\* each subject's estimators in order.
Flatten(record, subjs, n) ==
  IF n = 0 THEN <<>>
  ELSE Flatten(record, subjs, n - 1)
         \o (IF subjs[n] \in DOMAIN record THEN record[subjs[n]] ELSE <<>>)

\* Not the code: only the first estimator of each subject is visited.
FirstOnly(record, subjs) ==
  Flatten([s \in DOMAIN record |->
             IF record[s] = <<>> THEN <<>> ELSE <<record[s][1]>>],
          subjs, Len(subjs))

\* for subject, sub_estimators in estimators_record.items():
\*     for estim in sub_estimators:
Visited(record, subjs) == Flatten(record, subjs, Len(subjs))

\* workflow.add_nodes([g]): one more node, no connection.
add_nodes(nodes, edges, g) == [nodes |-> Append(nodes, g), edges |-> edges]

WfInit ==
  /\ \E n \in 0..MaxSubjects :
       /\ subjects = [i \in 1..n |-> i]
       /\ selector \in [1..n -> SelectorOutcomes]
  /\ estimators_record = EmptyDict
  /\ wf_nodes = <<>>
  /\ wf_edges = {}
  /\ wf_pc = "scan"
  /\ wf_i = 1
  /\ wf_j = 1
  /\ wf_error = "none"

WfIdle ==
  /\ subjects = <<>> /\ selector = <<>> /\ estimators_record = EmptyDict
  /\ wf_nodes = <<>> /\ wf_edges = {} /\ wf_pc = "idle"
  /\ wf_i = 1 /\ wf_j = 1 /\ wf_error = "none"

\* One iteration of the first loop:
\* estimators_record[subject] = find_estimators(...).
\* An exception of find_estimators is not caught: it ends init_sdcflows_wf.
WfScan ==
  /\ wf_pc = "scan"
  /\ wf_i <= Len(subjects)
  /\ LET s == subjects[wf_i] IN
       IF selector[s].raises
       THEN /\ wf_pc' = "failed"
            /\ wf_error' = "SelectorError"
            /\ UNCHANGED <<estimators_record, wf_i>>
       ELSE /\ estimators_record' = Put(estimators_record, s, find_estimators(selector, s))
            /\ wf_i' = wf_i + 1
            /\ UNCHANGED <<wf_pc, wf_error>>
  /\ UNCHANGED <<subjects, selector, wf_nodes, wf_edges, wf_j>>
  /\ UNCHANGED <<subVars, unitVars, dispVars>>

\* The first loop is over; the second starts.
WfScanEnd ==
  /\ wf_pc = "scan"
  /\ wf_i > Len(subjects)
  /\ wf_pc' = "add"
  /\ UNCHANGED <<subjects, selector, estimators_record, wf_nodes, wf_edges,
                 wf_i, wf_j, wf_error>>
  /\ UNCHANGED <<subVars, unitVars, dispVars>>

\* One iteration of the second loop:
\* workflow.add_nodes([estim.get_workflow()]).
\* An exception of get_workflow is not caught: it ends init_sdcflows_wf.
WfAdd ==
  /\ wf_pc = "add"
  /\ wf_j <= Len(Visited(estimators_record, subjects))
  /\ LET estim == Visited(estimators_record, subjects)[wf_j] IN
       IF estim.broken
       THEN /\ wf_pc' = "failed"
            /\ wf_error' = "EstimationError"
            /\ UNCHANGED <<wf_nodes, wf_edges, wf_j>>
       ELSE LET w == add_nodes(wf_nodes, wf_edges, get_workflow(estim)) IN
            /\ wf_nodes' = w.nodes
            /\ wf_edges' = w.edges
            /\ wf_j' = wf_j + 1
            /\ UNCHANGED <<wf_pc, wf_error>>
  /\ UNCHANGED <<subjects, selector, estimators_record, wf_i>>
  /\ UNCHANGED <<subVars, unitVars, dispVars>>

\* return workflow: the workflow is all that is returned; the local
\* estimators_record is released.
WfReturn ==
  /\ wf_pc = "add"
  /\ wf_j > Len(Visited(estimators_record, subjects))
  /\ wf_pc' = "done"
  /\ estimators_record' = EmptyDict
  /\ UNCHANGED <<subjects, selector, wf_nodes, wf_edges, wf_i, wf_j, wf_error>>
  /\ UNCHANGED <<subVars, unitVars, dispVars>>

(***************************************************************************)
(*                          The specification                              *)
(***************************************************************************)
\* A behaviour is a run of one of the four units: its inputs are drawn in
\* the initial state and the variables of the other units stay idle.
InitSub == SubInit /\ UnitsIdle /\ DispIdle /\ WfIdle

InitUnits == SubIdle /\ UnitsInit /\ DispIdle /\ WfIdle

InitDisp == SubIdle /\ UnitsIdle /\ DispInit /\ WfIdle

InitWf == SubIdle /\ UnitsIdle /\ DispIdle /\ WfInit

Init == InitSub \/ InitUnits \/ InitDisp \/ InitWf

Next ==
  \/ SubtractPhases_run
  \/ CheckB0Units_run
  \/ DisplacementsField2Fieldmap_run
  \/ WfScan
  \/ WfScanEnd
  \/ WfAdd
  \/ WfReturn

Spec == Init /\ [][Next]_vars

(***************************************************************************)
(*                             The claims                                  *)
(***************************************************************************)
Range(f) == {f[i] : i \in DOMAIN f}

\* C1: SubtractPhases run with a number of volumes different from the
\* number of metadata records ends with the cardinality error, before
\* anything else is done: no result is set, the subtraction is not
\* entered, nothing is written and no record is copied or changed.
C1_CardinalityError ==
  (sub_pc = "done" /\ Len(in_phases0) # Len(in_meta0)) =>
     /\ sub_error = InputCardinalityError
     /\ results = EmptyDict
     /\ subtract_calls = 0
     /\ sub_written = {}
     /\ heap = in_meta0

\* Two volumes and one metadata record were given and the run has ended
\* with the cardinality error.
C1_Witness ==
  /\ sub_pc = "done"
  /\ Len(in_phases0) = 2 /\ Len(in_meta0) = 1
  /\ sub_error = InputCardinalityError

\* C2: SubtractPhases given exactly one (volume, metadata) pair returns
\* that volume as phase_diff and that metadata object as metadata, its
\* contents unchanged, without error and without entering the subtraction.
C2_SingleInputIdentity ==
  (sub_pc = "done" /\ Len(in_phases0) = 1 /\ Len(in_meta0) = 1) =>
     /\ sub_error = "none"
     /\ DOMAIN results = {"phase_diff", "metadata"}
     /\ results["phase_diff"] = in_phases0[1]
     /\ results["metadata"] = in_meta[1]
     /\ heap[results["metadata"]] = in_meta0[1]
     /\ heap = in_meta0
     /\ subtract_calls = 0
     /\ sub_written = {}

\* One pair was given, its record not empty, and the run has ended.
C2_Witness ==
  /\ sub_pc = "done"
  /\ Len(in_phases0) = 1 /\ Len(in_meta0) = 1
  /\ DOMAIN in_meta0[1] = {"EchoTime", "PhaseEncodingDirection"}
  /\ DOMAIN results = {"phase_diff", "metadata"}

\* C9: SubtractPhases given equally many volumes and records, but neither
\* one nor two of each, is rejected and sets no result.
C9_OnlyOneOrTwo ==
  (sub_pc = "done" /\ Len(in_phases0) = Len(in_meta0)
     /\ Len(in_phases0) \notin {1, 2}) =>
     /\ sub_error # "none"
     /\ results = EmptyDict

\* C10: SubtractPhases leaves its inputs unchanged on every path: after the
\* run in_phases is the list given and every record of in_meta holds the
\* keys and values it held before.
C10_InputsUnchanged ==
  sub_pc = "done" =>
     /\ in_phases = in_phases0
     /\ Len(in_meta) = Len(in_meta0)
     /\ \A i \in 1..Len(in_meta) : heap[in_meta[i]] = in_meta0[i]

\* The two-input subtraction has run and set its results, both inputs
\* carried an echo time, and the echo times were consumed from the copies.
C10_Witness ==
  /\ sub_pc = "done"
  /\ subtract_calls = 1
  /\ DOMAIN results = {"phase_diff", "metadata"}
  /\ "EchoTime" \in DOMAIN heap[in_meta[1]]
  /\ "EchoTime" \in DOMAIN heap[in_meta[2]]
  /\ "EchoTime" \notin DOMAIN heap[Len(in_meta) + 1]
  /\ "EchoTime" \notin DOMAIN heap[Len(in_meta) + 2]

\* What the i-th run was applied to: the input field, or the output of the
\* run before it.
Before(i) ==
  IF i = 1
  THEN [out_file |-> u_in0, data |-> u_fs0[u_in0], files |-> DOMAIN u_fs0]
  ELSE u_hist[i - 1]

\* C3 as stated: CheckB0Units applied again to its own output changes
\* nothing, whatever the field (no double conversion): when the interface
\* is applied repeatedly with the units it was first given, every later
\* application returns the file and the data the first returned.
C3_UnitIdempotence ==
  \A i \in 1..Len(u_hist) :
     (\A j \in 1..i : u_hist[j].units = u_hist[1].units) =>
        /\ u_hist[i].out_file = u_hist[1].out_file
        /\ u_hist[i].data = u_hist[1].data

\* C3, amended: an application given units Hz returns the file it was
\* given, with the data it held, and writes no file; so an application to
\* the output of another, given the units Hz of that output, returns that
\* output.  An application given units rad/s writes a new file holding
\* the data over 2 pi, also when its input is the output of an earlier one.
C3_IdentityOnHz ==
  \A i \in 1..Len(u_hist) :
     /\ u_hist[i].in_file = Before(i).out_file
     /\ IF u_hist[i].units = "Hz"
        THEN /\ u_hist[i].out_file = Before(i).out_file
             /\ u_hist[i].data = Before(i).data
             /\ u_hist[i].files = Before(i).files
        ELSE /\ u_hist[i].out_file = fname_presuffix(Before(i).out_file)
             /\ u_hist[i].data = [v \in 1..NVox |-> DivTwoPi(Before(i).data[v])]
             /\ u_hist[i].files = Before(i).files \cup {u_hist[i].out_file}

\* A field in rad/s with a voxel that is not 0 has been converted and the
\* interface applied again to the result, with units Hz.
C3_Witness ==
  /\ Len(u_hist) >= 2
  /\ u_hist[1].units = "rad/s"
  /\ u_hist[2].units = "Hz"
  /\ \E v \in 1..NVox : u_hist[2].data[v].k = 1

\* C6: DisplacementsField2Fieldmap given a readout time that is zero or
\* negative fails: the run ends with an error, no converted field exists
\* and no output file is written.
C6_RoTimePrecondition ==
  (d_pc = "done" /\ d_inputs.ro_time <= 0) =>
     /\ d_error # "none"
     /\ d_converted = <<>>
     /\ d_fs = EmptyDict

\* A run with readout time 0 and displacements that are not 0 has ended.
C6_Witness ==
  /\ d_pc = "done"
  /\ d_inputs.ro_time = 0
  /\ \E i \in 1..NVox : d_inputs.vol[i][PeAxis(d_inputs.pe_dir)] # 0
  /\ d_error # "none"

\* The output volume of the run.
OutData == d_fs[d_results["out_file"]]

\* C7: with demean the field written is the converted field minus its
\* median at every voxel, and the median of what is written is 0; without
\* demean the converted field is written unchanged.
C7_DemeanMedianZero ==
  (d_pc = "done" /\ d_error = "none") =>
     /\ DOMAIN d_fs = {d_results["out_file"]}
     /\ IF d_inputs.demean
        THEN /\ \A i \in 1..NVox :
                  OutData[i] = RatSub(d_converted[i], Median(d_converted))
             /\ Median(OutData) = Rat(0, 1)
        ELSE OutData = d_converted

\* A field whose median is neither 0 nor its mean has been demeaned.
C7_Witness ==
  /\ d_pc = "done" /\ d_error = "none"
  /\ d_inputs.demean
  /\ Median(d_converted) # Rat(0, 1)
  /\ Median(d_converted) # Mean(d_converted)
  /\ OutData # d_converted

\* The step-graphs the Selector's estimators stand for: one per subject
\* and estimator index.
Expected ==
  {g \in [subject : Range(subjects), idx : 1..MaxEstim] :
     g.idx <= selector[g.subject].n}

\* How many times g was added to the workflow.
Count(g) == Cardinality({i \in 1..Len(wf_nodes) : wf_nodes[i] = g})

\* C4: in the pipeline init_sdcflows_wf returns, the step-graph of every
\* estimator the Selector returned for every subject appears exactly once,
\* nothing else appears, and there is no connection between step-graphs.
C4_EachEstimatorOnce ==
  wf_pc = "done" =>
     /\ \A g \in Expected : Count(g) = 1
     /\ Range(wf_nodes) \subseteq Expected
     /\ wf_edges = {}

\* A pipeline of two subjects or more, one of them with two estimators,
\* has been returned.
C4_Witness ==
  /\ wf_pc = "done"
  /\ Len(subjects) >= 2
  /\ \E s \in Range(subjects) : selector[s].n = 2
  /\ Len(wf_nodes) >= 3

\* C5: a failure while selecting or assembling the estimators of one
\* subject is local to that subject: init_sdcflows_wf does not abort, every
\* other subject is scanned and the step-graphs of the other subjects'
\* estimators are in the pipeline when it ends.
C5_FailureIsLocal ==
  wf_pc \in {"done", "failed"} =>
     /\ wf_pc = "done"
     /\ \A s \in Range(subjects) :
          (~selector[s].raises /\ selector[s].broken = 0) =>
             \A k \in 1..selector[s].n :
                [subject |-> s, idx |-> k] \in Range(wf_nodes)

\* C8: a subject with zero estimators is not an error: init_sdcflows_wf
\* completes, no step of that subject is in the pipeline, and after the
\* return the gap is on record for that subject (an empty list of
\* estimators under its key).
C8_CoverageGapRecorded ==
  (wf_pc = "done") =>
     \A s \in Range(subjects) :
        selector[s].n = 0 =>
          /\ \A i \in 1..Len(wf_nodes) : wf_nodes[i].subject # s
          /\ s \in DOMAIN estimators_record
          /\ estimators_record[s] = <<>>

====
